---------------------------- MODULE Spec2Model ----------------------------
(***************************************************************************)
(* A model of userspacefs:                                                 *)
(*                                                                         *)
(*   - mount_and_run_fs / simple_main (src/userspacefs/__init__.py): the   *)
(*     strategy selection, the fork / thread hand-over to mount_notify,    *)
(*     the server start-up sequence, the check_mount watchdog and the      *)
(*     signal handlers.  Specifications Spec and FairSpec.                 *)
(*                                                                         *)
(*   - FUSEAdapter (src/userspacefs/fuse_adapter.py): check_mode, the      *)
(*     handle table (_save_file / _delete_file) and the callbacks that     *)
(*     take a handle, run by concurrent transport threads.                 *)
(*     Specification FuseSpec.                                             *)
(***************************************************************************)
EXTENDS Integers, Sequences, FiniteSets, TLC

VARIABLES
    \* ---- mount_and_run_fs: arguments and platform -----------------------
    foreground,          \* argument foreground
    smb_only,            \* argument smb_only (reassigned at line 90)
    smb_no_mount,        \* argument smb_no_mount
    mount_point,         \* "None" or "mp"
    run_fuse_mount,      \* "None" (import failed, line 34) or "fn"
    platform,            \* sys.platform: "darwin" or "linux"
    force_smb,           \* the value smb_only was called with
    \* ---- the flow of mount_and_run_fs that becomes the server -----------
    pcMain,              \* position in mount_and_run_fs
    exc,                 \* exception in flight inside try/finally, or "none"
    retMain,             \* outcome of this flow of mount_and_run_fs
    fuseResult,          \* how run_fuse_mount ended, "none" if not called
    sockBound,           \* sock.bind succeeded
    forked,              \* daemonize() forked
    fsCreated,           \* create_fs() of line 216 returned
    fsCloseCalls,        \* number of fs.close() calls
    fsClosedWhileRunning,\* some fs.close() ran while server.run() was running
    server,              \* "None" or "set"
    handlers,            \* signals whose handler is installed
    readyWritten,        \* os.write(w, b'\0') succeeded
    \* ---- mount_notify (parent process, or thread when foreground) -------
    pcNotify,
    ret,                 \* local ret of mount_notify
    retNotify,           \* value mount_notify returned
    gotByte,             \* os.read(r, 1) returned one byte (not EOF)
    mountCalls,          \* number of mount commands run
    mountBeforeReady,    \* a mount command ran with no ready byte written
    \* ---- check_mount (watchdog thread) ----------------------------------
    pcWatch,
    is_mounted,          \* local is_mounted of check_mount
    wdExit,              \* why the loop ended: "none", "kill", "lost"
    umountCalls,         \* number of umount -f commands run
    serverCloseCalls,    \* number of server.close() calls
    \* ---- shared / operating system --------------------------------------
    mm_q,                \* queue.Queue of tokens: TRUE mounted, FALSE kill
    pipeBytes,           \* bytes in the pipe
    wHolders,            \* processes holding the pipe's write end open
    rHolders,            \* processes holding the pipe's read end open
    alive,               \* processes still running
    mounted,             \* the mount point is a mount (os.path.ismount)
    serverClosed,        \* SMBServer.close() has been called
    sigCount,            \* signals sent from outside so far
    killsDelivered,      \* SIGTERM/SIGINT delivered to an installed handler
    killsEnqueued,       \* FALSE tokens put on mm_q
    simple_main_ret,     \* outcome of simple_main in the calling process
    \* ---- FUSEAdapter ----------------------------------------------------
    fh_to_file,          \* self._fh_to_file: handle id -> open resource
    lock,                \* self._lock: the thread holding it, or NoThread
    cb,                  \* per transport thread: the callback it runs, its
                         \* position, arguments, locals and outcome
    resState,            \* per resource of the backing fs: free, open, closed
    handleOf,            \* per resource not yet closed: the id _save_file returned
    liveRes,             \* resources saved in the table and not yet popped
    reusedLive,          \* _save_file returned an id that was still live
    \* ---- mount_and_run_fs: the listening socket ------------------------
    smb_listen_address,  \* argument smb_listen_address: None or <<host, port>>
    portsInUse,          \* ports another socket already listens on
    host,                \* local host (lines 113-115)
    port,                \* local port (lines 113-119), NoPort for None
    bindAttempts,        \* number of sock.bind calls
    boundTo,             \* <<host, port>> the socket is bound to, or None
    mountUrl,            \* <<host, port>> of the locator given to mount, or None
    \* ---- mount_and_run_fs: on_new_process ------------------------------
    on_new_process,      \* argument on_new_process is not None
    onpCalls,            \* per process: calls of on_new_process made in it
    fuseInit,            \* FUSEAdapter.init ran during run_fuse_mount
    \* ---- FUSEAdapter.rename and the backing filesystem's namespace -----
    rn_pc,               \* position in rename
    oldpath,             \* argument oldpath
    newpath,             \* argument newpath
    files,               \* per path: the contents of the file there, or Absent
    rn_orig,             \* what was at oldpath when rename was called
    meddles,             \* changes made to newpath by another actor so far
    rn_before,           \* the namespace when rename was called
    pinned,              \* paths whose entry unlink refuses to remove
    \* ---- FUSEAdapter._fs_stat_to_fuse_attrs and readdir ----------------
    stRec,               \* a status record of the backing filesystem
    attrs,               \* what _fs_stat_to_fuse_attrs returned for it, or None
    children,            \* the entries of the directory behind a handle
    listing              \* what the last readdir returned, or None

optVars    == <<foreground, smb_no_mount, mount_point, run_fuse_mount,
                platform, force_smb>>
mainVars   == <<pcMain, exc, retMain, smb_only, fuseResult, sockBound,
                forked, fsCreated, fsCloseCalls, fsClosedWhileRunning,
                server, handlers, readyWritten>>
notifyVars == <<pcNotify, ret, retNotify, gotByte, mountCalls,
                mountBeforeReady>>
watchVars  == <<pcWatch, is_mounted, wdExit, umountCalls, serverCloseCalls>>
pipeVars   == <<pipeBytes, wHolders, rHolders>>
sigVars    == <<mm_q, sigCount, killsDelivered, killsEnqueued>>
envVars    == <<alive, mounted, serverClosed, simple_main_ret>>
mountVars  == <<optVars, mainVars, notifyVars, watchVars, pipeVars, sigVars,
                envVars>>
fuseVars   == <<fh_to_file, lock, cb, resState, handleOf, liveRes, reusedLive>>
rnVars     == <<rn_pc, oldpath, newpath, files, rn_orig, meddles, rn_before,
                 pinned>>
netVars    == <<smb_listen_address, portsInUse, host, port, bindAttempts,
                boundTo, mountUrl>>
statVars   == <<stRec, attrs, children, listing>>
onpVars    == <<on_new_process, onpCalls, fuseInit>>
auxVars    == <<rnVars, netVars, statVars, onpVars>>
\* auxVars without one of its groups.
auxNotRn   == <<netVars, statVars, onpVars>>
auxNotNet  == <<rnVars, statVars, onpVars>>
auxNotStat == <<rnVars, netVars, onpVars>>
auxNotOnp  == <<rnVars, netVars, statVars>>
vars       == <<mountVars, fuseVars, auxVars>>

-----------------------------------------------------------------------------
(* Bounds *)

\* Signals sent to the server process from outside in one run.
MaxSignals == 2

\* Resources the backing filesystem hands out in one run.
MaxResources == 3

\* Width of a handle id in the model; the code draws 32-bit ids.
IdBits == 1

\* Entries of a directory.
MaxChildren == 2

\* Changes another actor makes to the destination during one rename.
MaxMeddles == 2

\* sock.bind calls in one run (the loop of lines 118-125 has no limit).
MaxBindAttempts == 3

-----------------------------------------------------------------------------
(* Values *)

NoneVal     == <<"None">>
Pending     == <<"pending">>
IntVal(n)   == <<"int", n>>
\* A returned value that is not a number.
Some(x)     == <<"some", x>>
Raised(e)   == <<"raise", e>>

\* Exit statuses of the external mount command (subprocess.call).
MountExitCodes == {0, 1, 64}

Signals     == {"SIGTERM", "SIGINT", "SIGUSR1"}
KillSignals == {"SIGTERM", "SIGINT"}

\* The process that runs the server flow: the forked child, or the caller.
ServerProc == IF forked THEN "child" ELSE "caller"
\* The process that runs mount_notify: the caller in both modes.
NotifyProc == "caller"


-----------------------------------------------------------------------------
(* mount_and_run_fs: strategy selection (lines 83-108) *)

\* Lines 83-90: the assert holds by Init; smb_no_mount implies smb_only.
Start ==
    /\ pcMain = "start"
    /\ smb_only' = (smb_only \/ smb_no_mount)
    /\ pcMain' = "fuse"
    /\ UNCHANGED <<exc, retMain, fuseResult, sockBound, forked, fsCreated,
                   fsCloseCalls, fsClosedWhileRunning, server, handlers,
                   readyWritten>>
    /\ UNCHANGED <<optVars, notifyVars, watchVars, pipeVars, sigVars, envVars>>
    /\ UNCHANGED <<fuseVars, auxVars>>

\* Line 92: the condition under which the kernel transport is attempted.
AttemptsFuse == ~smb_only /\ run_fuse_mount # "None"

\* As FallsBackOn, had line 102 read "except Exception".
FallsBackOn_AnyException(e) == e \in {"RuntimeError", "OSError"}

\* Line 102: the failures of run_fuse_mount that fall through to SMB.
FallsBackOn(e) == e = "RuntimeError"

\* What run_fuse_mount (FUSE(...), fuse_adapter.py 230-237) can do.
FuseOutcomes == {"ok", "RuntimeError", "OSError"}

\* As PassesOnInit, had line 99 passed on_new_process in every mode.
PassesOnInit_Always == on_new_process

\* Line 99: on_init=None if foreground else on_new_process.
PassesOnInit == ~foreground /\ on_new_process

\* Lines 92-104.  The transport calls FUSEAdapter.init (fuse_adapter.py
\* 98-101), which calls on_init when it is not None, once the volume is
\* mounted: always before a normal return, and before a failure or not.
FuseMount ==
    /\ pcMain = "fuse"
    /\ AttemptsFuse
    /\ \E out \in FuseOutcomes, initRan \in BOOLEAN :
         /\ out = "ok" => initRan
         /\ fuseInit' = initRan
         /\ onpCalls' = IF initRan /\ PassesOnInit
                         THEN [onpCalls EXCEPT !["caller"] = @ + 1]
                         ELSE onpCalls
         /\ fuseResult' = out
         /\ IF out = "ok"
            THEN pcMain' = "returned" /\ retMain' = IntVal(0)
            ELSE IF FallsBackOn(out)
            THEN pcMain' = "can_mount" /\ retMain' = retMain
            ELSE pcMain' = "raised" /\ retMain' = Raised(out)
    /\ UNCHANGED <<exc, smb_only, sockBound, forked, fsCreated, fsCloseCalls,
                   fsClosedWhileRunning, server, handlers, readyWritten>>
    /\ UNCHANGED <<optVars, notifyVars, watchVars, pipeVars, sigVars, envVars>>
    /\ UNCHANGED on_new_process
    /\ UNCHANGED <<fuseVars, auxNotOnp>>

\* Line 92, condition false.
FuseSkip ==
    /\ pcMain = "fuse"
    /\ ~AttemptsFuse
    /\ pcMain' = "can_mount"
    /\ UNCHANGED <<exc, retMain, smb_only, fuseResult, sockBound, forked,
                   fsCreated, fsCloseCalls, fsClosedWhileRunning, server,
                   handlers, readyWritten>>
    /\ UNCHANGED <<optVars, notifyVars, watchVars, pipeVars, sigVars, envVars>>
    /\ UNCHANGED <<fuseVars, auxVars>>

\* Line 106.
can_mount_smb_automatically == platform = "darwin"

\* As MountImpossible, had line 107 tested smb_only for smb_no_mount.
MountImpossible_SmbOnly == ~smb_only /\ ~can_mount_smb_automatically

\* Line 107: the condition that raises MountError.
MountImpossible == ~smb_no_mount /\ ~can_mount_smb_automatically

\* Lines 106-108.
CheckCanMount ==
    /\ pcMain = "can_mount"
    /\ IF MountImpossible
       THEN pcMain' = "raised" /\ retMain' = Raised("MountError")
       ELSE pcMain' = "bind" /\ retMain' = retMain
    /\ UNCHANGED <<exc, smb_only, fuseResult, sockBound, forked, fsCreated,
                   fsCloseCalls, fsClosedWhileRunning, server, handlers,
                   readyWritten>>
    /\ UNCHANGED <<optVars, notifyVars, watchVars, pipeVars, sigVars, envVars>>
    /\ UNCHANGED <<fuseVars, auxVars>>

\* port is None.
NoPort == -1

\* Line 119: random.randint(60000, 2 ** 16) returns a value between its two
\* arguments, both included.
RandintLow  == 60000
RandintHigh == 65536

\* The candidates the model draws: the two ends of randint's range and the
\* value below its upper end.
PortDraws == {RandintLow, RandintHigh - 1, RandintHigh}

\* The ports sock.bind accepts; any other raises OverflowError.
ValidPorts == 0 .. 65535

\* A port given by the caller, and the one the system picks for port 0.
ExplicitPort  == 8445
EphemeralPort == 49152

Hosts == {"127.0.0.1", "192.168.1.20"}

ListenAddresses ==
    {NoneVal} \cup {<<h, q>> : h \in Hosts, q \in {NoPort, ExplicitPort, 0}}

\* Lines 112-115: (host, port) of the call.
AddrHost(a) == IF a = NoneVal THEN "127.0.0.1" ELSE a[1]
AddrPort(a) == IF a = NoneVal THEN NoPort ELSE a[2]

\* As RetriesBind, had line 123 not been there.
RetriesBind_Any(e) == TRUE

\* Line 123: the bind errors after which another port is drawn.
RetriesBind(e) == e = "EADDRINUSE"

\* What sock.bind((h, q)) does: OverflowError for a port that is no port,
\* EADDRINUSE for a port in use, otherwise it binds or fails with another
\* OSError (EACCES).
BindResults(q) ==
    IF q \notin ValidPorts THEN {"OverflowError"}
    ELSE IF q \in portsInUse THEN {"EADDRINUSE"}
    ELSE {"ok", "EACCES"}

\* Lines 110-131, one sock.bind call per step.  With port None (lines
\* 118-125) a port is drawn and bound, and the loop goes round again after
\* an error of RetriesBind; with a port given (lines 127-131) it is bound
\* once.  Any other error propagates.
Bind ==
    /\ pcMain = "bind"
    /\ bindAttempts < MaxBindAttempts
    /\ host' = AddrHost(smb_listen_address)
    /\ bindAttempts' = bindAttempts + 1
    /\ \E q \in (IF AddrPort(smb_listen_address) = NoPort
                 THEN PortDraws ELSE {AddrPort(smb_listen_address)}) :
         /\ port' = q
         /\ \E res \in BindResults(q) :
              IF res = "ok"
              THEN /\ pcMain' = "pipe" /\ sockBound' = TRUE
                   /\ retMain' = retMain
                   /\ boundTo' = <<host', IF q = 0 THEN EphemeralPort ELSE q>>
              ELSE IF AddrPort(smb_listen_address) = NoPort /\ RetriesBind(res)
              THEN /\ pcMain' = "bind" /\ sockBound' = sockBound
                   /\ retMain' = retMain /\ boundTo' = boundTo
              ELSE /\ pcMain' = "raised" /\ sockBound' = sockBound
                   /\ retMain' = Raised(res) /\ boundTo' = boundTo
    /\ UNCHANGED <<smb_listen_address, portsInUse, mountUrl>>
    /\ UNCHANGED <<exc, smb_only, fuseResult, forked, fsCreated,
                   fsCloseCalls, fsClosedWhileRunning, server, handlers,
                   readyWritten>>
    /\ UNCHANGED <<optVars, notifyVars, watchVars, pipeVars, sigVars, envVars>>
    /\ UNCHANGED <<fuseVars, auxNotNet>>

\* Line 144: (r, w) = os.pipe().
Pipe ==
    /\ pcMain = "pipe"
    /\ pcMain' = "daemonize"
    /\ wHolders' = {"caller"}
    /\ rHolders' = {"caller"}
    /\ UNCHANGED pipeBytes
    /\ UNCHANGED <<exc, retMain, smb_only, fuseResult, sockBound, forked,
                   fsCreated, fsCloseCalls, fsClosedWhileRunning, server,
                   handlers, readyWritten>>
    /\ UNCHANGED <<optVars, notifyVars, watchVars, sigVars, envVars>>
    /\ UNCHANGED <<fuseVars, auxVars>>

\* Lines 164-165 (os.fork, lines 41-44): the child gets copies of both pipe
\* ends; the parent goes on to lines 168-169.
Daemonize ==
    /\ pcMain = "daemonize"
    /\ ~foreground
    /\ forked' = TRUE
    /\ alive' = alive \cup {"child"}
    /\ wHolders' = wHolders \cup {"child"}
    /\ rHolders' = rHolders \cup {"child"}
    /\ pcNotify' = "close_w"
    /\ pcMain' = "child"
    /\ UNCHANGED <<exc, retMain, smb_only, fuseResult, sockBound,
                   fsCreated, fsCloseCalls, fsClosedWhileRunning, server,
                   handlers, readyWritten>>
    /\ UNCHANGED <<ret, retNotify, gotByte, mountCalls, mountBeforeReady>>
    /\ UNCHANGED <<pipeBytes, mounted, serverClosed, simple_main_ret>>
    /\ UNCHANGED <<optVars, watchVars, sigVars>>
    /\ UNCHANGED <<fuseVars, auxVars>>

\* Lines 170-173, in the child: on_new_process() when there is one,
\* os.close(r).
ChildSetup ==
    /\ pcMain = "child"
    /\ "child" \in alive
    /\ onpCalls' = IF on_new_process
                    THEN [onpCalls EXCEPT !["child"] = @ + 1] ELSE onpCalls
    /\ UNCHANGED <<on_new_process, fuseInit>>
    /\ rHolders' = rHolders \ {"child"}
    /\ pcMain' = "create_fs"
    /\ UNCHANGED <<pipeBytes, wHolders>>
    /\ UNCHANGED <<exc, retMain, smb_only, fuseResult, sockBound, forked,
                   fsCreated, fsCloseCalls, fsClosedWhileRunning, server,
                   handlers, readyWritten>>
    /\ UNCHANGED <<optVars, notifyVars, watchVars, sigVars, envVars>>
    /\ UNCHANGED <<fuseVars, auxNotOnp>>

\* Line 175: mount_notify runs on a daemon thread of the same process.
StartNotifyThread ==
    /\ pcMain = "daemonize"
    /\ foreground
    /\ pcNotify' = "read"
    /\ pcMain' = "create_fs"
    /\ UNCHANGED <<exc, retMain, smb_only, fuseResult, sockBound, forked,
                   fsCreated, fsCloseCalls, fsClosedWhileRunning, server,
                   handlers, readyWritten>>
    /\ UNCHANGED <<ret, retNotify, gotByte, mountCalls, mountBeforeReady>>
    /\ UNCHANGED <<optVars, watchVars, pipeVars, sigVars, envVars>>
    /\ UNCHANGED <<fuseVars, auxVars>>

-----------------------------------------------------------------------------
(* mount_and_run_fs: the server flow (lines 177-234) *)

\* Line 216: fs = create_fs(), outside the try: a failure propagates with
\* nothing to close.
CreateFs ==
    /\ pcMain = "create_fs"
    /\ ServerProc \in alive
    /\ \E ok \in BOOLEAN :
         IF ok
         THEN pcMain' = "server" /\ fsCreated' = TRUE /\ retMain' = retMain
         ELSE pcMain' = "raised" /\ fsCreated' = fsCreated
              /\ retMain' = Raised("CreateFsError")
    /\ UNCHANGED <<exc, smb_only, fuseResult, sockBound, forked,
                   fsCloseCalls, fsClosedWhileRunning, server, handlers,
                   readyWritten>>
    /\ UNCHANGED <<optVars, notifyVars, watchVars, pipeVars, sigVars, envVars>>
    /\ UNCHANGED <<fuseVars, auxVars>>

\* Lines 218-220: server = SMBServer(...), inside the try.
ConstructServer ==
    /\ pcMain = "server"
    /\ \E ok \in BOOLEAN :
         IF ok
         THEN pcMain' = "sigterm" /\ server' = "set" /\ exc' = exc
         ELSE pcMain' = "finally" /\ server' = server /\ exc' = "ServerInitError"
    /\ UNCHANGED <<retMain, smb_only, fuseResult, sockBound, forked,
                   fsCreated, fsCloseCalls, fsClosedWhileRunning, handlers,
                   readyWritten>>
    /\ UNCHANGED <<optVars, notifyVars, watchVars, pipeVars, sigVars, envVars>>
    /\ UNCHANGED <<fuseVars, auxVars>>

\* The signal installed at each position of lines 223-225, and the position
\* that follows it.
SignalAt(pc) ==
    CASE pc = "sigterm" -> "SIGTERM"
      [] pc = "sigint"  -> "SIGINT"
      [] pc = "sigusr1" -> "SIGUSR1"

\* As AfterSignal, had the ready byte been written after the first
\* handler was installed.
AfterSignal_WriteEarly(pc) == "write"

AfterSignal(pc) ==
    CASE pc = "sigterm" -> "sigint"
      [] pc = "sigint"  -> "sigusr1"
      [] pc = "sigusr1" -> "write"

\* Lines 223-225: signal.signal(...); it raises (ValueError) when the caller
\* is not the main thread of its interpreter.
InstallHandler ==
    /\ pcMain \in {"sigterm", "sigint", "sigusr1"}
    /\ \E ok \in BOOLEAN :
         IF ok
         THEN /\ pcMain' = AfterSignal(pcMain)
              /\ handlers' = handlers \cup {SignalAt(pcMain)}
              /\ exc' = exc
         ELSE pcMain' = "finally" /\ handlers' = handlers /\ exc' = "ValueError"
    /\ UNCHANGED <<retMain, smb_only, fuseResult, sockBound, forked,
                   fsCreated, fsCloseCalls, fsClosedWhileRunning, server,
                   readyWritten>>
    /\ UNCHANGED <<optVars, notifyVars, watchVars, pipeVars, sigVars, envVars>>
    /\ UNCHANGED <<fuseVars, auxVars>>

\* Line 228: os.write(w, b'\0'); it raises (EPIPE) when no process holds the
\* read end, and may raise any other OSError.
WriteReady ==
    /\ pcMain = "write"
    /\ \E ok \in BOOLEAN :
         IF ok /\ rHolders # {}
         THEN /\ pcMain' = "thread"
              /\ pipeBytes' = pipeBytes + 1
              /\ readyWritten' = TRUE
              /\ exc' = exc
         ELSE /\ pcMain' = "finally"
              /\ pipeBytes' = pipeBytes
              /\ readyWritten' = readyWritten
              /\ exc' = "OSError"
    /\ UNCHANGED <<wHolders, rHolders>>
    /\ UNCHANGED <<retMain, smb_only, fuseResult, sockBound, forked,
                   fsCreated, fsCloseCalls, fsClosedWhileRunning, server,
                   handlers>>
    /\ UNCHANGED <<optVars, notifyVars, watchVars, sigVars, envVars>>
    /\ UNCHANGED <<fuseVars, auxVars>>

\* Line 230: threading.Thread(target=check_mount, daemon=True).start();
\* check_mount begins with is_mounted = False (line 181).
StartWatchdog ==
    /\ pcMain = "thread"
    /\ pcMain' = "run"
    /\ pcWatch' = "get"
    /\ is_mounted' = FALSE
    /\ UNCHANGED <<wdExit, umountCalls, serverCloseCalls>>
    /\ UNCHANGED <<exc, retMain, smb_only, fuseResult, sockBound, forked,
                   fsCreated, fsCloseCalls, fsClosedWhileRunning, server,
                   handlers, readyWritten>>
    /\ UNCHANGED <<optVars, notifyVars, pipeVars, sigVars, envVars>>
    /\ UNCHANGED <<fuseVars, auxVars>>

\* SMBServer.run() returns once close() has been called (the accept loop is
\* unblocked by close).
RunUnblocked == serverClosed

\* server.run() of line 232 is in progress.
ServerRunning == pcMain = "run"

\* Line 232: server.run() returns.
RunReturns ==
    /\ pcMain = "run"
    /\ RunUnblocked
    /\ pcMain' = "finally"
    /\ UNCHANGED <<exc, retMain, smb_only, fuseResult, sockBound, forked,
                   fsCreated, fsCloseCalls, fsClosedWhileRunning, server,
                   handlers, readyWritten>>
    /\ UNCHANGED <<optVars, notifyVars, watchVars, pipeVars, sigVars, envVars>>
    /\ UNCHANGED <<fuseVars, auxVars>>

\* As RunRaises, had fs.close() followed server.run() without try/finally.
RunRaises_NoFinally ==
    /\ pcMain = "run"
    /\ pcMain' = "raised"
    /\ retMain' = Raised("ServerError")
    /\ UNCHANGED <<exc, smb_only, fuseResult, sockBound, forked,
                   fsCreated, fsCloseCalls, fsClosedWhileRunning, server,
                   handlers, readyWritten>>
    /\ UNCHANGED <<optVars, notifyVars, watchVars, pipeVars, sigVars, envVars>>
    /\ UNCHANGED <<fuseVars, auxVars>>

\* Line 232: server.run() raises.
RunRaises ==
    /\ pcMain = "run"
    /\ pcMain' = "finally"
    /\ exc' = "ServerError"
    /\ UNCHANGED <<retMain, smb_only, fuseResult, sockBound, forked,
                   fsCreated, fsCloseCalls, fsClosedWhileRunning, server,
                   handlers, readyWritten>>
    /\ UNCHANGED <<optVars, notifyVars, watchVars, pipeVars, sigVars, envVars>>
    /\ UNCHANGED <<fuseVars, auxVars>>

\* Lines 233-234: finally: fs.close(); then the function returns None (it
\* falls off its end) or the exception in flight propagates.
Finally ==
    /\ pcMain = "finally"
    /\ fsCloseCalls' = fsCloseCalls + 1
    /\ fsClosedWhileRunning' = (fsClosedWhileRunning \/ ServerRunning)
    /\ IF exc = "none"
       THEN pcMain' = "returned" /\ retMain' = NoneVal
       ELSE pcMain' = "raised" /\ retMain' = Raised(exc)
    /\ UNCHANGED <<exc, smb_only, fuseResult, sockBound, forked, fsCreated,
                   server, handlers, readyWritten>>
    /\ UNCHANGED <<optVars, notifyVars, watchVars, pipeVars, sigVars, envVars>>
    /\ UNCHANGED <<fuseVars, auxVars>>

-----------------------------------------------------------------------------
(* Signals (lines 208-214, 223-225) *)

\* As HandlerToken, had line 224 installed handle_mounted for SIGINT.
HandlerToken_SigintMounted(sig) == sig \in {"SIGUSR1", "SIGINT"}

\* The token the handler installed for a signal puts on mm_q: kill_signal
\* (SIGTERM, SIGINT) puts False, handle_mounted (SIGUSR1) puts True.
HandlerToken(sig) == sig = "SIGUSR1"

\* A signal reaches the server process: its installed handler runs in the
\* main thread and enqueues its token.  A signal to a process that has
\* exited has no effect.
Deliver(sig) ==
    IF ServerProc \in alive /\ sig \in handlers
    THEN /\ mm_q' = Append(mm_q, HandlerToken(sig))
         /\ killsDelivered' =
              killsDelivered + (IF sig \in KillSignals THEN 1 ELSE 0)
         /\ killsEnqueued' =
              killsEnqueued + (IF HandlerToken(sig) THEN 0 ELSE 1)
    ELSE UNCHANGED <<mm_q, killsDelivered, killsEnqueued>>

\* A termination or interrupt signal sent from outside (kill, Ctrl-C) after
\* its handler is installed.
ExtSignal ==
    /\ sigCount < MaxSignals
    /\ ServerProc \in alive
    /\ \E sig \in KillSignals :
         /\ sig \in handlers
         /\ Deliver(sig)
    /\ sigCount' = sigCount + 1
    /\ UNCHANGED <<optVars, mainVars, notifyVars, watchVars, pipeVars, envVars>>
    /\ UNCHANGED <<fuseVars, auxVars>>

-----------------------------------------------------------------------------
(* mount_notify (lines 146-162) and its caller (lines 167-169, 175) *)

\* Line 168, parent process: os.close(w).
NotifyCloseW ==
    /\ pcNotify = "close_w"
    /\ NotifyProc \in alive
    /\ wHolders' = wHolders \ {"caller"}
    /\ pcNotify' = "read"
    /\ UNCHANGED <<pipeBytes, rHolders>>
    /\ UNCHANGED <<ret, retNotify, gotByte, mountCalls, mountBeforeReady>>
    /\ UNCHANGED <<optVars, mainVars, watchVars, sigVars, envVars>>
    /\ UNCHANGED <<fuseVars, auxVars>>

\* os.read(r, 1) can return: a byte is in the pipe, or every write end is
\* closed (end of file, b'' is returned).
ReadReturns == pipeBytes > 0 \/ wHolders = {}

\* Lines 148-149, 160-161: os.read(r, 1), its result unused; then the branch
\* on smb_no_mount.
NotifyRead ==
    /\ pcNotify = "read"
    /\ NotifyProc \in alive
    /\ ReadReturns
    /\ gotByte' = (pipeBytes > 0)
    /\ pipeBytes' = IF pipeBytes > 0 THEN pipeBytes - 1 ELSE pipeBytes
    /\ IF ~smb_no_mount
       THEN pcNotify' = "mount" /\ ret' = ret
       ELSE pcNotify' = "return" /\ ret' = 0
    /\ UNCHANGED <<wHolders, rHolders>>
    /\ UNCHANGED <<retNotify, mountCalls, mountBeforeReady>>
    /\ UNCHANGED <<optVars, mainVars, watchVars, sigVars, envVars>>
    /\ UNCHANGED <<fuseVars, auxVars>>

\* Lines 151-152: the host and port of the locator
\* "cifs://guest:@127.0.0.1:%d/%s" % (port, display_name).
Locator == <<"127.0.0.1", port>>

\* Lines 150-153: ret = subprocess.call(["mount", ...]).  The command can
\* exit 0 only while an SMB server is there to answer it, at the address
\* the locator names.
NotifyMount ==
    /\ pcNotify = "mount"
    /\ NotifyProc \in alive
    /\ mountUrl' = Locator
    /\ UNCHANGED <<smb_listen_address, portsInUse, host, port, bindAttempts,
                   boundTo>>
    /\ \E code \in MountExitCodes :
         /\ code = 0 => (server = "set" /\ ServerProc \in alive /\ ~serverClosed)
         /\ code = 0 => Locator = boundTo
         /\ ret' = code
         /\ mounted' = (mounted \/ code = 0)
    /\ mountCalls' = mountCalls + 1
    /\ mountBeforeReady' = (mountBeforeReady \/ ~readyWritten)
    /\ pcNotify' = "kill"
    /\ UNCHANGED <<retNotify, gotByte>>
    /\ UNCHANGED <<alive, serverClosed, simple_main_ret>>
    /\ UNCHANGED <<optVars, mainVars, watchVars, pipeVars, sigVars>>
    /\ UNCHANGED <<fuseVars, auxNotNet>>

\* Lines 154-159: the signal sent to child_pid.
NotifySignal(r) == IF r # 0 THEN "SIGTERM" ELSE "SIGUSR1"

\* Lines 154-159: os.kill(child_pid, ...).
NotifyKill ==
    /\ pcNotify = "kill"
    /\ NotifyProc \in alive
    /\ Deliver(NotifySignal(ret))
    /\ pcNotify' = "return"
    /\ UNCHANGED sigCount
    /\ UNCHANGED <<ret, retNotify, gotByte, mountCalls, mountBeforeReady>>
    /\ UNCHANGED <<optVars, mainVars, watchVars, pipeVars, envVars>>
    /\ UNCHANGED <<fuseVars, auxVars>>

\* Line 162: return ret.  In the parent process this is what
\* mount_and_run_fs returns (line 169); on the thread of line 175 the value
\* is dropped.
NotifyReturn ==
    /\ pcNotify = "return"
    /\ NotifyProc \in alive
    /\ retNotify' = IntVal(ret)
    /\ pcNotify' = "done"
    /\ UNCHANGED <<ret, gotByte, mountCalls, mountBeforeReady>>
    /\ UNCHANGED <<optVars, mainVars, watchVars, pipeVars, sigVars, envVars>>
    /\ UNCHANGED <<fuseVars, auxVars>>

-----------------------------------------------------------------------------
(* check_mount (lines 180-206) *)

\* As WaitTimeout, had lines 184-186 not looked at is_mounted.
WaitTimeout_Unmounted == IF foreground THEN IntVal(1) ELSE IntVal(30)

\* Lines 184-186: the timeout of mm_q.get.
WaitTimeout ==
    IF ~is_mounted THEN NoneVal
    ELSE IF foreground THEN IntVal(1) ELSE IntVal(30)

\* Lines 183-195: mm_q.get returns a token, or times out (queue.Empty) when
\* the queue stayed empty for a timeout that is not None.
WatchGet ==
    /\ pcWatch = "get"
    /\ ServerProc \in alive
    /\ IF mm_q # <<>>
       THEN /\ mm_q' = Tail(mm_q)
            /\ IF Head(mm_q)
               THEN is_mounted' = TRUE /\ pcWatch' = "check" /\ wdExit' = wdExit
               ELSE is_mounted' = is_mounted /\ pcWatch' = "after"
                    /\ wdExit' = "kill"
       ELSE /\ WaitTimeout # NoneVal
            /\ mm_q' = mm_q
            /\ pcWatch' = "check"
            /\ UNCHANGED <<is_mounted, wdExit>>
    /\ UNCHANGED <<umountCalls, serverCloseCalls>>
    /\ UNCHANGED <<sigCount, killsDelivered, killsEnqueued>>
    /\ UNCHANGED <<optVars, mainVars, notifyVars, pipeVars, envVars>>
    /\ UNCHANGED <<fuseVars, auxVars>>

\* Line 197: the test that ends the loop on a lost mount.
MountLost == is_mounted /\ ~mounted

\* Lines 197-200.
WatchCheck ==
    /\ pcWatch = "check"
    /\ ServerProc \in alive
    /\ IF MountLost
       THEN is_mounted' = FALSE /\ pcWatch' = "after" /\ wdExit' = "lost"
       ELSE is_mounted' = is_mounted /\ pcWatch' = "get" /\ wdExit' = wdExit
    /\ UNCHANGED <<umountCalls, serverCloseCalls>>
    /\ UNCHANGED <<optVars, mainVars, notifyVars, pipeVars, sigVars, envVars>>
    /\ UNCHANGED <<fuseVars, auxVars>>

\* As RunsUmount, had lines 202-203 run umount unconditionally.
RunsUmount_Always == TRUE

\* Line 202: the condition under which umount -f is run.
RunsUmount == is_mounted

\* Lines 202-203: subprocess.call(["umount", "-f", mount_point]), which may
\* or may not manage to unmount.
WatchUmount ==
    /\ pcWatch = "after"
    /\ ServerProc \in alive
    /\ IF RunsUmount
       THEN /\ umountCalls' = umountCalls + 1
            /\ \E ok \in BOOLEAN : mounted' = (mounted /\ ~ok)
       ELSE UNCHANGED <<umountCalls, mounted>>
    /\ pcWatch' = "close"
    /\ UNCHANGED <<is_mounted, wdExit, serverCloseCalls>>
    /\ UNCHANGED <<alive, serverClosed, simple_main_ret>>
    /\ UNCHANGED <<optVars, mainVars, notifyVars, pipeVars, sigVars>>
    /\ UNCHANGED <<fuseVars, auxVars>>

\* Line 206: server.close().
WatchClose ==
    /\ pcWatch = "close"
    /\ ServerProc \in alive
    /\ serverCloseCalls' = serverCloseCalls + 1
    /\ serverClosed' = TRUE
    /\ pcWatch' = "done"
    /\ UNCHANGED <<is_mounted, wdExit, umountCalls>>
    /\ UNCHANGED <<alive, mounted, simple_main_ret>>
    /\ UNCHANGED <<optVars, mainVars, notifyVars, pipeVars, sigVars>>
    /\ UNCHANGED <<fuseVars, auxVars>>

-----------------------------------------------------------------------------
(* simple_main (lines 329-340), processes, the mount point *)

\* What mount_and_run_fs gave the process that called it: in the parent of
\* a fork the value of mount_notify (line 169), otherwise the server flow's.
CallerOutcome == IF forked THEN retNotify ELSE retMain

\* Lines 329-340: MountError becomes -1; anything else passes through.
SimpleMainResult(out) ==
    IF out = Raised("MountError") THEN IntVal(-1) ELSE out

SimpleMain ==
    /\ simple_main_ret = Pending
    /\ CallerOutcome # Pending
    /\ "caller" \in alive
    /\ simple_main_ret' = SimpleMainResult(CallerOutcome)
    /\ UNCHANGED <<alive, mounted, serverClosed>>
    /\ UNCHANGED <<optVars, mainVars, notifyVars, watchVars, pipeVars, sigVars>>
    /\ UNCHANGED <<fuseVars, auxVars>>

\* mount_and_run_fs is over in process p.
Finished(p) == IF p = "caller" THEN CallerOutcome # Pending
                               ELSE retMain # Pending

\* A process ends once its mount_and_run_fs is over: its descriptors are
\* closed and its daemon threads stop.
ProcExit ==
    /\ \E p \in alive :
         /\ Finished(p)
         /\ alive' = alive \ {p}
         /\ wHolders' = wHolders \ {p}
         /\ rHolders' = rHolders \ {p}
    /\ UNCHANGED <<pipeBytes, mounted, serverClosed, simple_main_ret>>
    /\ UNCHANGED <<optVars, mainVars, notifyVars, watchVars, sigVars>>
    /\ UNCHANGED <<fuseVars, auxVars>>

\* The volume is unmounted from outside (ejected by the user).
ExternalUnmount ==
    /\ mounted
    /\ mounted' = FALSE
    /\ UNCHANGED <<alive, serverClosed, simple_main_ret>>
    /\ UNCHANGED <<optVars, mainVars, notifyVars, watchVars, pipeVars, sigVars>>
    /\ UNCHANGED <<fuseVars, auxVars>>

-----------------------------------------------------------------------------
(* The orchestrator's specification *)

\* Line 83: assert smb_no_mount or mount_point is not None.
MountStart(addresses, inUse, callbacks) ==
    /\ foreground \in BOOLEAN
    /\ force_smb \in BOOLEAN
    /\ smb_only = force_smb
    /\ smb_no_mount \in BOOLEAN
    /\ mount_point \in {"None", "mp"}
    /\ smb_no_mount \/ mount_point # "None"
    /\ run_fuse_mount \in {"None", "fn"}
    /\ platform \in {"darwin", "linux"}
    /\ pcMain = "start" /\ exc = "none" /\ retMain = Pending
    /\ fuseResult = "none" /\ sockBound = FALSE /\ forked = FALSE
    /\ fsCreated = FALSE /\ fsCloseCalls = 0 /\ fsClosedWhileRunning = FALSE
    /\ server = "None" /\ handlers = {} /\ readyWritten = FALSE
    /\ pcNotify = "idle" /\ ret = 0 /\ retNotify = Pending
    /\ gotByte = FALSE /\ mountCalls = 0 /\ mountBeforeReady = FALSE
    /\ pcWatch = "idle" /\ is_mounted = FALSE /\ wdExit = "none"
    /\ umountCalls = 0 /\ serverCloseCalls = 0
    /\ mm_q = <<>> /\ pipeBytes = 0 /\ wHolders = {} /\ rHolders = {}
    /\ alive = {"caller"} /\ mounted = FALSE /\ serverClosed = FALSE
    /\ sigCount = 0 /\ killsDelivered = 0 /\ killsEnqueued = 0
    /\ simple_main_ret = Pending
    /\ smb_listen_address \in addresses
    /\ portsInUse \in inUse
    /\ host = "None" /\ port = NoPort /\ bindAttempts = 0
    /\ boundTo = NoneVal /\ mountUrl = NoneVal
    /\ on_new_process \in callbacks
    /\ onpCalls = [p \in {"caller", "child"} |-> 0]
    /\ fuseInit = FALSE

\* A call with an on_new_process and no smb_listen_address, on a machine
\* with every port free.
MountInit == MountStart({NoneVal}, {{}}, {TRUE})

MainStep ==
    \/ Start \/ FuseMount \/ FuseSkip \/ CheckCanMount \/ Bind \/ Pipe
    \/ Daemonize \/ ChildSetup \/ StartNotifyThread
    \/ CreateFs \/ ConstructServer \/ InstallHandler \/ WriteReady
    \/ StartWatchdog \/ RunReturns \/ RunRaises \/ Finally

NotifyStep ==
    \/ NotifyCloseW \/ NotifyRead \/ NotifyMount \/ NotifyKill \/ NotifyReturn

WatchStep == WatchGet \/ WatchCheck \/ WatchUmount \/ WatchClose

EnvStep == ExtSignal \/ ExternalUnmount \/ ProcExit \/ SimpleMain

MountNext == MainStep \/ NotifyStep \/ WatchStep \/ EnvStep

\* The steps of the server flow other than a failure of server.run().
MainProgress ==
    \/ Start \/ FuseMount \/ FuseSkip \/ CheckCanMount \/ Bind \/ Pipe
    \/ Daemonize \/ ChildSetup \/ StartNotifyThread
    \/ CreateFs \/ ConstructServer \/ InstallHandler \/ WriteReady
    \/ StartWatchdog \/ RunReturns \/ Finally

-----------------------------------------------------------------------------
(* FUSEAdapter: values (fuse_adapter.py) *)

\* The transport threads that run callbacks concurrently: two, since every
\* race on the handle table is a race between two callbacks.
Threads   == {1, 2}
Resources == 1 .. MaxResources

NoThread == 0
NoRes    == 0
\* fh is None / no handle drawn yet.
NoFh     == -1

RECURSIVE Pow2(_)
Pow2(n) == IF n = 0 THEN 1 ELSE 2 * Pow2(n - 1)

\* Line 59: random.randint(0, 2 ** 32 - 1), both ends included; the model's
\* ids are IdBits wide.
RandomHandle == 0 .. (Pow2(IdBits) - 1)

\* The unsigned range of a handle id the transport can carry.
HandleRange == 0 .. (Pow2(IdBits) - 1)

RECURSIVE BitAnd(_, _)
BitAnd(a, b) ==
    IF a = 0 \/ b = 0 THEN 0
    ELSE (a % 2) * (b % 2) + 2 * BitAnd(a \div 2, b \div 2)

RECURSIVE BitOr(_, _)
BitOr(a, b) ==
    IF a = 0 THEN b
    ELSE IF b = 0 THEN a
    ELSE (IF a % 2 = 1 \/ b % 2 = 1 THEN 1 ELSE 0)
         + 2 * BitOr(a \div 2, b \div 2)

\* The file type constants of Python's stat module used at line 40.
S_IFIFO  == 4096
S_IFCHR  == 8192
S_IFBLK  == 24576
S_IFLNK  == 40960
S_IFSOCK == 49152

\* Line 40: S_IFCHR | S_IFBLK | S_IFIFO | S_IFLNK | S_IFSOCK.
TypeMask ==
    BitOr(BitOr(BitOr(BitOr(S_IFCHR, S_IFBLK), S_IFIFO), S_IFLNK), S_IFSOCK)

\* Lines 39-41: check_mode raises OSError(EPERM) exactly when this holds.
CheckModeRaises(mode) == BitAnd(TypeMask, mode) = TypeMask

\* The mode arguments tried: every value of the four type bits, with no
\* permission bits, with rw-r--r-- and with every permission bit.
Modes == { ty * 4096 + perm : ty \in 0 .. 15, perm \in {0, 420, 4095} }

\* Two of them, for runs about the handle table: a regular file rw-r--r--,
\* and all four type bits set.
SampleModes == { 8 * 4096 + 420, 15 * 4096 }

\* The callbacks, by the code they run:
\*   "create", "mknod"  lines 120-129
\*   "open"             open and opendir: _save_file(self._fs.open...(...))
\*   "getattr"          getattr with a handle, lines 112-115
\*   "lookup"           read, write, truncate with a handle, fsync, readdir:
\*                      self._fh_to_file[fh], then one backing operation
\*   "release"          release and releasedir: _delete_file(fh).close()
HandleOps == {"getattr", "lookup", "release"}

IdleCb ==
    [op |-> "idle", pc |-> "idle", fh |-> NoFh, mode |-> 0, r |-> NoFh,
     f |-> NoRes, result |-> "none", fs_called |-> FALSE, wrote |-> FALSE,
     live_seen |-> FALSE]

Live(fh) == fh \in DOMAIN fh_to_file

-----------------------------------------------------------------------------
(* FUSEAdapter: the transport invokes a callback on a thread *)

\* create(path, mode, fi) / mknod(path, mode, dev): lines 120-129.
InvokeCreate(t, modes) ==
    /\ cb[t].pc = "idle"
    /\ \E o \in {"create", "mknod"}, m \in modes :
         cb' = [cb EXCEPT ![t] = [IdleCb EXCEPT !.op = o, !.pc = "check_mode",
                                                !.mode = m]]
    /\ UNCHANGED <<fh_to_file, lock, resState, handleOf, liveRes, reusedLive>>
    /\ UNCHANGED <<mountVars, auxVars>>

\* open(path, fi) / opendir(path): lines 131-133, 167-168.
InvokeOpen(t) ==
    /\ cb[t].pc = "idle"
    /\ cb' = [cb EXCEPT ![t] = [IdleCb EXCEPT !.op = "open", !.pc = "fs_open"]]
    /\ UNCHANGED <<fh_to_file, lock, resState, handleOf, liveRes, reusedLive>>
    /\ UNCHANGED <<mountVars, auxVars>>

\* The first position of each callback that takes a handle.
FirstPc(o) ==
    IF o = "getattr" THEN "getattr_check"
    ELSE IF o = "release" THEN "delete_lock"
    ELSE "lookup"

\* A callback that takes a handle is invoked with any id of the range,
\* live or not: lines 108-111, 135-136, 140-141, 145-147, 157-158, 162-163,
\* 170, 175.
InvokeHandle(t) ==
    /\ cb[t].pc = "idle"
    /\ \E o \in HandleOps, h \in HandleRange :
         cb' = [cb EXCEPT ![t] = [IdleCb EXCEPT !.op = o, !.pc = FirstPc(o),
                                                !.fh = h,
                                                !.live_seen = Live(h)]]
    /\ UNCHANGED <<fh_to_file, lock, resState, handleOf, liveRes, reusedLive>>
    /\ UNCHANGED <<mountVars, auxVars>>

\* The callback returns to the transport (or its exception reaches it).
Return(t) ==
    /\ cb[t].pc = "done"
    /\ cb' = [cb EXCEPT ![t] = IdleCb]
    /\ UNCHANGED <<fh_to_file, lock, resState, handleOf, liveRes, reusedLive>>
    /\ UNCHANGED <<mountVars, auxVars>>

-----------------------------------------------------------------------------
(* FUSEAdapter: create, mknod, open, opendir *)

\* Lines 122, 127: check_mode(mode).
CheckMode(t) ==
    /\ cb[t].pc = "check_mode"
    /\ cb' = [cb EXCEPT ![t] =
                IF CheckModeRaises(cb[t].mode)
                THEN [@ EXCEPT !.result = "EPERM", !.pc = "done"]
                ELSE [@ EXCEPT !.pc = "fs_open"]]
    /\ UNCHANGED <<fh_to_file, lock, resState, handleOf, liveRes, reusedLive>>
    /\ UNCHANGED <<mountVars, auxVars>>

FreeResources == { x \in Resources : resState[x] = "free" }

\* Lines 123, 128, 132, 168: self._fs.open(...) / open_directory(...)
\* returns a fresh open resource, or raises.
FsOpen(t) ==
    /\ cb[t].pc = "fs_open"
    /\ \/ /\ FreeResources # {}
          /\ LET x == CHOOSE y \in FreeResources :
                         \A z \in FreeResources : y <= z
             IN /\ resState' = [resState EXCEPT ![x] = "open"]
                /\ cb' = [cb EXCEPT ![t].f = x, ![t].fs_called = TRUE,
                                    ![t].pc = IF cb[t].op = "mknod"
                                              THEN "mknod_close"
                                              ELSE "save_lock"]
       \/ /\ resState' = resState
          /\ cb' = [cb EXCEPT ![t].fs_called = TRUE, ![t].result = "OSError",
                              ![t].pc = "done"]
    /\ UNCHANGED <<fh_to_file, lock, handleOf, liveRes, reusedLive>>
    /\ UNCHANGED <<mountVars, auxVars>>

\* Line 124: .close() of the file mknod opened.
MknodClose(t) ==
    /\ cb[t].pc = "mknod_close"
    /\ resState' = [resState EXCEPT ![cb[t].f] = "closed"]
    /\ cb' = [cb EXCEPT ![t].result = "ok", ![t].pc = "done"]
    /\ UNCHANGED <<fh_to_file, lock, handleOf, liveRes, reusedLive>>
    /\ UNCHANGED <<mountVars, auxVars>>

-----------------------------------------------------------------------------
(* FUSEAdapter: _save_file (lines 56-63) *)

\* Line 57: with self._lock.
SaveLock(t) ==
    /\ cb[t].pc = "save_lock"
    /\ lock = NoThread
    /\ lock' = t
    /\ cb' = [cb EXCEPT ![t].pc = "save_draw"]
    /\ UNCHANGED <<fh_to_file, resState, handleOf, liveRes, reusedLive>>
    /\ UNCHANGED <<mountVars, auxVars>>

\* As DrawAccepted, had line 60 not tested membership.
DrawAccepted_Always(r) == TRUE

\* Line 60: the drawn id ends the loop.
DrawAccepted(r) == r \notin DOMAIN fh_to_file

\* Lines 58-61: draw an id; loop again on a collision.
SaveDraw(t) ==
    /\ cb[t].pc = "save_draw"
    /\ \E r \in RandomHandle :
         IF DrawAccepted(r)
         THEN cb' = [cb EXCEPT ![t].r = r, ![t].pc = "save_store"]
         ELSE cb' = cb
    /\ UNCHANGED <<fh_to_file, lock, resState, handleOf, liveRes, reusedLive>>
    /\ UNCHANGED <<mountVars, auxVars>>

\* Lines 62-63: self._fh_to_file[r] = f; return r (the lock is released);
\* lines 128-129, 132-133, 168: the id goes to the transport.
SaveStore(t) ==
    /\ cb[t].pc = "save_store"
    /\ LET r == cb[t].r
           f == cb[t].f
       IN /\ fh_to_file' = [h \in DOMAIN fh_to_file \cup {r} |->
                               IF h = r THEN f ELSE fh_to_file[h]]
          /\ reusedLive' = (reusedLive \/ Live(r))
          /\ handleOf' = [handleOf EXCEPT ![f] = r]
          /\ liveRes' = liveRes \cup {f}
          /\ cb' = [u \in Threads |->
                      IF u = t
                      THEN [cb[t] EXCEPT !.wrote = TRUE, !.result = "ok",
                                         !.pc = "done"]
                      ELSE IF cb[u].fh = r
                      THEN [cb[u] EXCEPT !.live_seen = TRUE]
                      ELSE cb[u]]
    /\ lock' = NoThread
    /\ UNCHANGED resState
    /\ UNCHANGED <<mountVars, auxVars>>

-----------------------------------------------------------------------------
(* FUSEAdapter: callbacks that take a handle *)

\* Lines 113-114 of getattr: the membership test, without the lock.
GetattrCheck(t) ==
    /\ cb[t].pc = "getattr_check"
    /\ cb' = [cb EXCEPT ![t] =
                IF Live(cb[t].fh)
                THEN [@ EXCEPT !.pc = "lookup"]
                ELSE [@ EXCEPT !.result = "Exception", !.pc = "done"]]
    /\ UNCHANGED <<fh_to_file, lock, resState, handleOf, liveRes, reusedLive>>
    /\ UNCHANGED <<mountVars, auxVars>>

\* As Lookup, had the callbacks read the table with .get(fh): a missing id
\* gives None and the callback goes on.
Lookup_Get(t) ==
    /\ cb[t].pc = "lookup"
    /\ cb' = [cb EXCEPT ![t] =
                IF Live(cb[t].fh)
                THEN [@ EXCEPT !.f = fh_to_file[cb[t].fh], !.pc = "fs_op"]
                ELSE [@ EXCEPT !.f = NoRes, !.pc = "fs_op"]]
    /\ UNCHANGED <<fh_to_file, lock, resState, handleOf, liveRes, reusedLive>>
    /\ UNCHANGED <<mountVars, auxVars>>

\* Lines 115, 137, 142, 154, 159, 172: self._fh_to_file[fh], without the
\* lock; KeyError when fh is not a key.
Lookup(t) ==
    /\ cb[t].pc = "lookup"
    /\ cb' = [cb EXCEPT ![t] =
                IF Live(cb[t].fh)
                THEN [@ EXCEPT !.f = fh_to_file[cb[t].fh], !.pc = "fs_op"]
                ELSE [@ EXCEPT !.result = "KeyError", !.pc = "done"]]
    /\ UNCHANGED <<fh_to_file, lock, resState, handleOf, liveRes, reusedLive>>
    /\ UNCHANGED <<mountVars, auxVars>>

\* Lines 115, 138, 143, 155, 159, 173: the backing-filesystem operation on
\* the resource (fstat, pread, pwrite, ftruncate, fsync, iteration).
FsOp(t) ==
    /\ cb[t].pc = "fs_op"
    /\ cb' = [cb EXCEPT ![t].fs_called = TRUE, ![t].result = "ok",
                        ![t].pc = "done"]
    /\ UNCHANGED <<fh_to_file, lock, resState, handleOf, liveRes, reusedLive>>
    /\ UNCHANGED <<mountVars, auxVars>>

\* Line 66 of _delete_file: with self._lock.
DeleteLock(t) ==
    /\ cb[t].pc = "delete_lock"
    /\ lock = NoThread
    /\ lock' = t
    /\ cb' = [cb EXCEPT ![t].pc = "delete_pop"]
    /\ UNCHANGED <<fh_to_file, resState, handleOf, liveRes, reusedLive>>
    /\ UNCHANGED <<mountVars, auxVars>>

\* Line 67: return self._fh_to_file.pop(fh); KeyError when fh is not a key.
\* The lock is released either way.
DeletePop(t) ==
    /\ cb[t].pc = "delete_pop"
    /\ IF Live(cb[t].fh)
       THEN /\ fh_to_file' = [h \in DOMAIN fh_to_file \ {cb[t].fh} |->
                                 fh_to_file[h]]
            /\ liveRes' = liveRes \ {fh_to_file[cb[t].fh]}
            /\ cb' = [cb EXCEPT ![t].f = fh_to_file[cb[t].fh],
                                ![t].wrote = TRUE, ![t].pc = "close"]
       ELSE /\ UNCHANGED <<fh_to_file, liveRes>>
            /\ cb' = [cb EXCEPT ![t].result = "KeyError", ![t].pc = "done"]
    /\ lock' = NoThread
    /\ UNCHANGED <<resState, handleOf, reusedLive>>
    /\ UNCHANGED <<mountVars, auxVars>>

\* Lines 164, 176: .close() of the popped resource, after the lock is
\* released.
CloseResource(t) ==
    /\ cb[t].pc = "close"
    /\ resState' = [resState EXCEPT ![cb[t].f] = "closed"]
    /\ handleOf' = [handleOf EXCEPT ![cb[t].f] = NoFh]
    /\ cb' = [cb EXCEPT ![t].result = "ok", ![t].pc = "done"]
    /\ UNCHANGED <<fh_to_file, lock, liveRes, reusedLive>>
    /\ UNCHANGED <<mountVars, auxVars>>

-----------------------------------------------------------------------------
(* FUSEAdapter.rename (lines 187-199) over the backing filesystem *)

Paths  == {"A", "B", "C"}
Absent == "absent"
\* What another actor writes at a path.
Foreign == "x"

\* rename at rest.
RenameIdle ==
    /\ rn_pc = "idle" /\ oldpath = "A" /\ newpath = "A"
    /\ rn_orig = Absent /\ meddles = 0
    /\ rn_before = <<>> /\ pinned = {}

\* Lines 187-189: the transport calls rename(oldpath, newpath).
InvokeRename ==
    /\ rn_pc = "idle"
    /\ \E o \in Paths, n \in Paths :
         /\ oldpath' = o
         /\ newpath' = n
         /\ rn_orig' = files[o]
    /\ rn_before' = files
    /\ rn_pc' = "rename"
    /\ UNCHANGED <<files, meddles, pinned>>
    /\ UNCHANGED <<mountVars, fuseVars, auxNotRn>>

\* rename_noreplace raises FileExistsError when the destination is there.
DestinationExists(n) == files[n] # Absent

\* What rename_noreplace does when both paths name the same existing entry:
\* it raises FileExistsError, the destination being there, or it returns
\* having changed nothing, as the backing filesystem has it.
SamePathOutcomes == {"unlink", "done"}

\* Lines 191-193 and 198-199: self._fs.rename_noreplace(oldpath_, newpath_).
\* A missing source raises FileNotFoundError, which rename does not catch;
\* FileExistsError leads to the unlink; success ends the loop.
RenameNoreplace ==
    /\ rn_pc = "rename"
    /\ IF files[oldpath] = Absent
       THEN rn_pc' = "raised" /\ files' = files
       ELSE IF DestinationExists(newpath)
       THEN /\ rn_pc' \in (IF oldpath = newpath THEN SamePathOutcomes
                                                ELSE {"unlink"})
            /\ files' = files
       ELSE /\ rn_pc' = "done"
            /\ files' = [files EXCEPT ![newpath] = files[oldpath],
                                      ![oldpath] = Absent]
    /\ UNCHANGED <<oldpath, newpath, rn_orig, meddles, rn_before, pinned>>
    /\ UNCHANGED <<mountVars, fuseVars, auxNotRn>>

\* As CatchesNotFound, had lines 196-197 not been there.
CatchesNotFound_No == FALSE

\* Lines 196-197: FileNotFoundError out of unlink is caught and passed over.
CatchesNotFound == TRUE

\* Lines 194-197: self._fs.unlink(newpath_), which raises FileNotFoundError
\* when nothing is there, and an error rename does not catch (the entry is
\* a directory, or may not be removed) when the entry is pinned; then the
\* loop goes round again.
RenameUnlink ==
    /\ rn_pc = "unlink"
    /\ IF files[newpath] # Absent /\ newpath \in pinned
       THEN rn_pc' = "raised" /\ files' = files
       ELSE /\ files' = [files EXCEPT ![newpath] = Absent]
            /\ rn_pc' = IF files[newpath] = Absent /\ ~CatchesNotFound
                        THEN "raised" ELSE "rename"
    /\ UNCHANGED <<oldpath, newpath, rn_orig, meddles, rn_before, pinned>>
    /\ UNCHANGED <<mountVars, fuseVars, auxNotRn>>

\* Another actor creates a file at the destination while rename runs.
MeddleCreate ==
    /\ rn_pc \in {"rename", "unlink"}
    /\ meddles < MaxMeddles
    /\ newpath # oldpath
    /\ files[newpath] = Absent
    /\ files' = [files EXCEPT ![newpath] = Foreign]
    /\ meddles' = meddles + 1
    /\ UNCHANGED <<rn_pc, oldpath, newpath, rn_orig, rn_before, pinned>>
    /\ UNCHANGED <<mountVars, fuseVars, auxNotRn>>

\* Another actor removes the destination while rename runs.
MeddleRemove ==
    /\ rn_pc \in {"rename", "unlink"}
    /\ meddles < MaxMeddles
    /\ newpath # oldpath
    /\ files[newpath] # Absent
    /\ files' = [files EXCEPT ![newpath] = Absent]
    /\ meddles' = meddles + 1
    /\ UNCHANGED <<rn_pc, oldpath, newpath, rn_orig, rn_before, pinned>>
    /\ UNCHANGED <<mountVars, fuseVars, auxNotRn>>

\* The steps of the thread that runs rename.
RenameStep == RenameNoreplace \/ RenameUnlink

RenameNext == InvokeRename \/ RenameStep \/ MeddleCreate \/ MeddleRemove

-----------------------------------------------------------------------------
(* FUSEAdapter._fs_stat_to_fuse_attrs (lines 75-96) and readdir (170-173) *)

\* A datetime is a whole number of microseconds since the epoch; a POSIX
\* timestamp is a float of seconds, finer than a microsecond, counted here
\* in ticks of half a microsecond.
Dt(us)  == <<"dt", us>>
Missing == <<"missing">>
TicksPerMicrosecond == 2

\* userspacefs.util_dumpster.utctimestamp: the POSIX timestamp of a naive
\* UTC datetime.
utctimestamp(d) == d[2] * TicksPerMicrosecond

\* datetime.datetime.utcfromtimestamp: the datetime of a timestamp, rounded
\* to the nearest microsecond, halves to the even one.
utcfromtimestamp(ts) ==
    LET q == ts \div TicksPerMicrosecond
        r == ts % TicksPerMicrosecond
    IN  Dt(IF r * 2 < TicksPerMicrosecond THEN q
           ELSE IF r * 2 > TicksPerMicrosecond THEN q + 1
           ELSE IF q % 2 = 0 THEN q ELSE q + 1)

\* getattr(st, name, default).
GetAttr(st, name, default) == IF st[name] = Missing THEN default ELSE st[name]

S_IFDIR == 16384
S_IFREG == 32768
\* 0o777
AllPerms == 511

TimeFields == {"birthtime", "mtime", "ctime", "atime"}

\* As PreviousField, had every missing time fallen back to the birthtime.
PreviousField_Birthtime(name) == "st_birthtime"

\* Lines 79-81: the resolved field a missing mtime, ctime, atime falls back
\* to.
PreviousField(name) ==
    CASE name = "mtime" -> "st_birthtime"
      [] name = "ctime" -> "st_mtime"
      [] name = "atime" -> "st_ctime"

\* Lines 75-96 (st_uid and st_gid, the ids of the process, are left out).
_fs_stat_to_fuse_attrs(st) ==
    LET b == utctimestamp(GetAttr(st, "birthtime", utcfromtimestamp(0)))
        t1 == [st_birthtime |-> b]
        m == utctimestamp(GetAttr(st, "mtime",
                 utcfromtimestamp(t1[PreviousField("mtime")])))
        t2 == [st_birthtime |-> b, st_mtime |-> m]
        c == utctimestamp(GetAttr(st, "ctime",
                 utcfromtimestamp(t2[PreviousField("ctime")])))
        t3 == [st_birthtime |-> b, st_mtime |-> m, st_ctime |-> c]
        a == utctimestamp(GetAttr(st, "atime",
                 utcfromtimestamp(t3[PreviousField("atime")])))
    IN  [st_birthtime |-> b, st_mtime |-> m, st_ctime |-> c, st_atime |-> a,
         st_size  |-> st.size,
         st_mode  |-> IF st.type = "directory"
                      THEN BitOr(S_IFDIR, AllPerms)
                      ELSE BitOr(S_IFREG, AllPerms),
         st_nlink |-> 1]

\* The datetimes of the model's records: before, at and after the epoch.
Datetimes == {Dt(-3), Dt(0), Dt(1), Dt(8)}

StatRecords ==
    [birthtime : Datetimes \cup {Missing}, mtime : Datetimes \cup {Missing},
     ctime : Datetimes \cup {Missing}, atime : Datetimes \cup {Missing},
     size : {0, 5}, type : {"file", "directory"}, name : {"a.txt"}]

\* The entries a directory of the backing filesystem yields: any name with
\* any type, either empty with no mtime or of five bytes with one.
ChildRecords ==
    {x \in [birthtime : {Missing}, mtime : {Missing, Dt(8)},
            ctime : {Missing}, atime : {Missing},
            size : {0, 5}, type : {"file", "directory"},
            name : {"a.txt", "sub"}] :
        (x.size = 0) <=> (x.mtime = Missing)}

Directories == UNION {[1 .. n -> ChildRecords] : n \in 0 .. MaxChildren}

\* Nothing translated or listed yet.
StatIdle ==
    /\ stRec = [birthtime |-> Missing, mtime |-> Missing, ctime |-> Missing,
                atime |-> Missing, size |-> 0, type |-> "file",
                name |-> "a.txt"]
    /\ attrs = NoneVal
    /\ children = <<>>
    /\ listing = NoneVal

\* Line 118: getattr returns self._fs_stat_to_fuse_attrs(st).
Translate ==
    /\ attrs = NoneVal
    /\ attrs' = Some(_fs_stat_to_fuse_attrs(stRec))
    /\ UNCHANGED <<stRec, children, listing>>
    /\ UNCHANGED <<mountVars, fuseVars, auxNotStat>>

\* readdir(path, fh), line 170, with any id of the range.
InvokeReaddir(t) ==
    /\ cb[t].pc = "idle"
    /\ \E h \in HandleRange :
         cb' = [cb EXCEPT ![t] = [IdleCb EXCEPT !.op = "readdir",
                                                !.pc = "lookup", !.fh = h,
                                                !.live_seen = Live(h)]]
    /\ listing' = NoneVal
    /\ UNCHANGED <<stRec, attrs, children>>
    /\ UNCHANGED <<fh_to_file, lock, resState, handleOf, liveRes, reusedLive>>
    /\ UNCHANGED <<mountVars, auxNotStat>>

\* As DotEntries, had line 173 chained nothing before the children.
DotEntries_None == <<>>

\* Line 173: the entries chained before the children.
DotEntries == <<".", "..">>

\* Line 173: '.', '..', then (x.name, attributes of x, 0) for each x the
\* directory yields.
ReaddirList(t) ==
    /\ cb[t].pc = "fs_op"
    /\ cb[t].op = "readdir"
    /\ listing' = Some(DotEntries \o
                       [i \in 1 .. Len(children) |->
                           <<children[i].name,
                             _fs_stat_to_fuse_attrs(children[i]), 0>>])
    /\ cb' = [cb EXCEPT ![t].fs_called = TRUE, ![t].result = "ok",
                        ![t].pc = "done"]
    /\ UNCHANGED <<stRec, attrs, children>>
    /\ UNCHANGED <<fh_to_file, lock, resState, handleOf, liveRes, reusedLive>>
    /\ UNCHANGED <<mountVars, auxNotStat>>

-----------------------------------------------------------------------------
(* Specifications *)

\* Lines 49-54: FUSEAdapter.__init__.
FuseInit ==
    /\ fh_to_file = <<>>
    /\ lock = NoThread
    /\ cb = [t \in Threads |-> IdleCb]
    /\ resState = [x \in Resources |-> "free"]
    /\ handleOf = [x \in Resources |-> NoFh]
    /\ liveRes = {}
    /\ reusedLive = FALSE

FuseNext ==
    \E t \in Threads :
        \/ InvokeCreate(t, SampleModes) \/ InvokeOpen(t) \/ InvokeHandle(t)
        \/ Return(t)
        \/ CheckMode(t) \/ FsOpen(t) \/ MknodClose(t)
        \/ SaveLock(t) \/ SaveDraw(t) \/ SaveStore(t)
        \/ GetattrCheck(t) \/ Lookup(t) \/ FsOp(t)
        \/ DeleteLock(t) \/ DeletePop(t) \/ CloseResource(t)

\* The orchestrator, with the adapter at rest.
\* The state of what is not running: rename at rest on an empty namespace.
AuxInit ==
    /\ RenameIdle
    /\ files = [p \in Paths |-> Absent]
    /\ StatIdle

Init == MountInit /\ FuseInit /\ AuxInit

Spec == Init /\ [][MountNext]_vars

\* Every thread that can take a step is scheduled: the server flow, the
\* mount_notify thread or process, and the check_mount thread.  Nothing
\* forces a signal, an unmount from outside, a failure of server.run() or
\* the end of a process.
FairSpec ==
    /\ Spec
    /\ WF_vars(MainProgress)
    /\ WF_vars(NotifyStep)
    /\ WF_vars(WatchStep)

\* The adapter under concurrent callbacks, in a run whose kernel transport
\* was mounted in the foreground.
FuseModeInit ==
    /\ MountInit
    /\ foreground /\ ~force_smb /\ ~smb_no_mount /\ mount_point = "mp"
    /\ run_fuse_mount = "fn" /\ platform = "linux"
    /\ FuseInit
    /\ AuxInit

FuseSpec == FuseModeInit /\ [][FuseNext]_vars

\* create and mknod on one thread, over every mode.
ModeNext ==
    \/ InvokeCreate(1, Modes) \/ CheckMode(1) \/ FsOpen(1) \/ MknodClose(1)
    \/ SaveLock(1) \/ SaveDraw(1) \/ SaveStore(1) \/ Return(1)

ModeSpec == FuseModeInit /\ [][ModeNext]_vars

\* The orchestrator called with and without an on_new_process.
CallbackInit == MountStart({NoneVal}, {{}}, BOOLEAN) /\ FuseInit /\ AuxInit

CallbackSpec == CallbackInit /\ [][MountNext]_vars

\* The fallback from the call to the mount command, for every listen
\* address and with ports already taken.
NetInit ==
    /\ MountStart(ListenAddresses, SUBSET {RandintLow, ExplicitPort}, {TRUE})
    /\ force_smb
    /\ FuseInit
    /\ AuxInit

NetNext ==
    \/ Start \/ FuseSkip \/ CheckCanMount \/ Bind \/ Pipe
    \/ Daemonize \/ ChildSetup \/ StartNotifyThread
    \/ CreateFs \/ ConstructServer \/ InstallHandler \/ WriteReady
    \/ NotifyCloseW \/ NotifyRead \/ NotifyMount

NetSpec == NetInit /\ [][NetNext]_vars

\* The adapter in use, nothing called yet.
AdapterRest ==
    /\ MountInit
    /\ foreground /\ ~force_smb /\ ~smb_no_mount /\ mount_point = "mp"
    /\ run_fuse_mount = "fn" /\ platform = "linux"
    /\ FuseInit
    /\ RenameIdle
    /\ files = [p \in Paths |-> Absent]

\* The translation of every status record.
AttrInit ==
    /\ AdapterRest
    /\ stRec \in StatRecords
    /\ attrs = NoneVal /\ children = <<>> /\ listing = NoneVal

AttrSpec == AttrInit /\ [][Translate]_vars

\* opendir, readdir and releasedir on one thread, over every directory.
DirInit ==
    /\ AdapterRest
    /\ children \in Directories
    /\ stRec = [birthtime |-> Missing, mtime |-> Missing, ctime |-> Missing,
                atime |-> Missing, size |-> 0, type |-> "directory",
                name |-> "sub"]
    /\ attrs = NoneVal /\ listing = NoneVal

DirNext ==
    \/ InvokeOpen(1) \/ FsOpen(1) \/ SaveLock(1) \/ SaveDraw(1) \/ SaveStore(1)
    \/ InvokeReaddir(1) \/ Lookup(1) \/ ReaddirList(1) \/ Return(1)

DirSpec == DirInit /\ [][DirNext]_vars

\* rename on a namespace where each path holds a file of its own (its
\* contents named after the path) or nothing.
RenameInit ==
    /\ MountInit
    /\ foreground /\ ~force_smb /\ ~smb_no_mount /\ mount_point = "mp"
    /\ run_fuse_mount = "fn" /\ platform = "linux"
    /\ FuseInit
    /\ StatIdle
    /\ RenameIdle
    /\ files \in {f \in [Paths -> Paths \cup {Absent}] :
                      \A p \in Paths : f[p] \in {p, Absent}}

RenameSpec == RenameInit /\ [][RenameNext]_vars

\* The thread that runs rename is scheduled; nothing forces another actor
\* to act.
RenameFairSpec == RenameSpec /\ WF_vars(RenameStep)

\* rename with no other actor, over every namespace and every set of
\* entries that unlink refuses to remove.
SoloRenameInit ==
    /\ MountInit
    /\ foreground /\ ~force_smb /\ ~smb_no_mount /\ mount_point = "mp"
    /\ run_fuse_mount = "fn" /\ platform = "linux"
    /\ FuseInit
    /\ StatIdle
    /\ rn_pc = "idle" /\ oldpath = "A" /\ newpath = "A"
    /\ rn_orig = Absent /\ meddles = 0 /\ rn_before = <<>>
    /\ pinned \in SUBSET Paths
    /\ files \in {f \in [Paths -> Paths \cup {Absent}] :
                      \A p \in Paths : f[p] \in {p, Absent}}

SoloRenameNext == InvokeRename \/ RenameNoreplace \/ RenameUnlink

SoloRenameSpec == SoloRenameInit /\ [][SoloRenameNext]_vars

-----------------------------------------------------------------------------
(* Claims about mount_and_run_fs *)

\* mount_and_run_fs is over in the server flow.
MainOver == pcMain \in {"returned", "raised"}

\* No step of the SMB fallback has been taken.
NoFallbackStep ==
    /\ ~sockBound /\ ~forked /\ ~fsCreated /\ server = "None"
    /\ wHolders = {} /\ mountCalls = 0
    /\ pcNotify = "idle" /\ pcWatch = "idle"

\* C1: once create_fs() of the fallback path has returned, fs.close() is
\* called exactly once on every way out of the server flow (SMBServer
\* construction, signal installation or the ready-byte write failing,
\* server.run() returning or raising), never twice, never without a
\* filesystem, and never while server.run() is still running.
C1_FsClosedExactlyOnce ==
    /\ fsCloseCalls <= 1
    /\ ~fsCreated => fsCloseCalls = 0
    /\ (fsCreated /\ MainOver) => fsCloseCalls = 1
    /\ fsCloseCalls = 1 => (MainOver /\ ~ServerRunning)
    /\ ~fsClosedWhileRunning

\* server.run() raised, and the filesystem was closed once on the way out.
C1_Witness ==
    /\ retMain = Raised("ServerError")
    /\ fsCreated
    /\ fsCloseCalls = 1

\* C2: the mount command is run only after the server has installed its
\* handlers and written the ready byte; never in a run where no ready byte
\* was written.
C2_MountOnlyAfterReady ==
    /\ ~mountBeforeReady
    /\ mountCalls > 0 => (gotByte /\ handlers = Signals)

MountFailed == mountCalls > 0 /\ pcNotify \in {"kill", "return", "done"} /\ ret # 0

\* C4: whenever the mount command exits non-zero, what mount_and_run_fs
\* returns to its caller is a non-zero status, daemonized or not; it returns
\* zero only when a mount succeeded or none was requested.
C4_MountFailureReported ==
    /\ (MountFailed /\ CallerOutcome[1] \in {"None", "int"}) =>
           (CallerOutcome[1] = "int" /\ CallerOutcome[2] # 0)
    /\ CallerOutcome = IntVal(0) =>
           (fuseResult = "ok" \/ smb_no_mount \/ (mountCalls > 0 /\ ret = 0))

\* The kernel transport was not used: never attempted, or it raised a
\* runtime failure.
TransportNotUsed == fuseResult \in {"none", "RuntimeError"}

\* C5: when the kernel transport is not used, the platform cannot mount an
\* SMB share itself and smb_no_mount was not asked for, mount_and_run_fs
\* raises MountError with no socket bound, no fork, no filesystem created,
\* no pipe and no mount command, and simple_main returns -1.
C5_MountErrorBeforeFallback ==
    ( /\ pcMain \notin {"start", "fuse", "can_mount"}
      /\ TransportNotUsed
      /\ platform # "darwin"
      /\ ~smb_no_mount )
    => /\ pcMain = "raised"
       /\ retMain = Raised("MountError")
       /\ NoFallbackStep
       /\ simple_main_ret = Pending \/ simple_main_ret = IntVal(-1)

\* simple_main has turned the MountError that followed a runtime failure of
\* the kernel transport into -1.
C5_Witness ==
    /\ fuseResult = "RuntimeError"
    /\ retMain = Raised("MountError")
    /\ simple_main_ret = IntVal(-1)

\* C6: the kernel transport is attempted exactly when neither smb_only nor
\* smb_no_mount was passed and run_fuse_mount is available; when it returns,
\* the run returns 0 and takes no fallback step; when it raises a failure
\* that is not a RuntimeError, the failure propagates and no fallback step
\* is taken; a RuntimeError is never propagated and never ends the run with
\* 0: the run goes on to the fallback.
C6_StrategySelection ==
    /\ pcMain \in {"start", "fuse"} => fuseResult = "none"
    /\ pcMain \notin {"start", "fuse"} =>
         ( fuseResult # "none" <=>
             (~force_smb /\ ~smb_no_mount /\ run_fuse_mount # "None") )
    /\ fuseResult = "ok" =>
         (pcMain = "returned" /\ retMain = IntVal(0) /\ NoFallbackStep)
    /\ fuseResult = "OSError" =>
         (pcMain = "raised" /\ retMain = Raised("OSError") /\ NoFallbackStep)
    /\ fuseResult = "RuntimeError" =>
         /\ retMain # IntVal(0)
         /\ retMain # Raised("RuntimeError")
         /\ pcMain \notin {"start", "fuse", "returned"} \/ retMain = NoneVal
    /\ retMain = IntVal(0) => fuseResult = "ok"

\* The kernel transport raised a RuntimeError and the SMB server is running.
C6_Witness ==
    /\ fuseResult = "RuntimeError"
    /\ sockBound
    /\ ServerRunning

\* The safety half of C7: every SIGTERM or SIGINT delivered to an installed
\* handler has put a kill token on mm_q; server.close() has been called at
\* most once, and only by check_mount at its end.
C7_Safety ==
    /\ killsEnqueued = killsDelivered
    /\ serverCloseCalls <= 1
    /\ serverClosed <=> (serverCloseCalls = 1 /\ pcWatch = "done")

-----------------------------------------------------------------------------
(* Claims about FUSEAdapter *)

\* The file type field of a mode (its four type bits).
FileType(mode) == ((mode \div 4096) % 16) * 4096

\* The types of node the adapter does not create: character and block
\* devices, pipes, symlinks, sockets.
SpecialTypes == {S_IFCHR, S_IFBLK, S_IFIFO, S_IFLNK, S_IFSOCK}

\* C8: for every mode, create and mknod fail with EPERM, call no backing
\* operation and add no table entry when the mode is of a device, pipe,
\* socket or symlink; for every other mode they go on to open the file.
C8_SpecialModesRejected ==
    \A t \in Threads :
        (cb[t].op \in {"create", "mknod"} /\ cb[t].pc # "check_mode") =>
            IF FileType(cb[t].mode) \in SpecialTypes
            THEN /\ cb[t].result = "EPERM"
                 /\ ~cb[t].fs_called
                 /\ ~cb[t].wrote
            ELSE cb[t].result # "EPERM"

\* C9: in every interleaving of open/create/opendir and release/releasedir,
\* every live handle id is in the unsigned range of a handle and maps to one
\* open resource, every saved resource is found under the id that was
\* returned for it, no two live resources share an id, and no id is handed
\* out while an entry still holds it.
C9_HandleTable ==
    /\ \A h \in DOMAIN fh_to_file :
         /\ h \in HandleRange
         /\ fh_to_file[h] \in liveRes
         /\ resState[fh_to_file[h]] = "open"
    /\ \A f \in liveRes :
         /\ handleOf[f] \in DOMAIN fh_to_file
         /\ fh_to_file[handleOf[f]] = f
    /\ \A f, g \in liveRes : f # g => handleOf[f] # handleOf[g]
    /\ ~reusedLive

\* An id is live again, for a second resource, while the resource that
\* held it before has been popped by a release and is not closed yet.
C9_Witness ==
    \E t \in Threads, g \in liveRes :
        /\ cb[t].op = "release" /\ cb[t].pc = "close"
        /\ cb[t].f # g
        /\ handleOf[g] = cb[t].fh
        /\ fh_to_file[cb[t].fh] = g

\* C10: a getattr by handle, read, write, truncate by handle, fsync,
\* readdir, release or releasedir whose handle id is not live (not in the
\* table when the callback starts nor put there while it runs) fails with
\* KeyError or the invalid-handle Exception, without calling the backing
\* filesystem and without writing the table.
C10_DeadHandleFails ==
    \A t \in Threads :
        (cb[t].op \in HandleOps /\ ~cb[t].live_seen) =>
            /\ ~cb[t].fs_called
            /\ ~cb[t].wrote
            /\ cb[t].pc \notin {"fs_op", "close"}
            /\ cb[t].pc = "done" =>
                 cb[t].result = IF cb[t].op = "getattr" THEN "Exception"
                                                        ELSE "KeyError"

\* A release of an id that another release had already popped has failed
\* with KeyError.
C10_Witness ==
    \E t, u \in Threads :
        /\ t # u
        /\ cb[t].op = "release" /\ cb[t].pc = "done"
        /\ ~cb[t].live_seen
        /\ cb[t].result = "KeyError"
        /\ cb[u].op = "release" /\ cb[u].pc \in {"close", "done"}
        /\ cb[u].wrote /\ cb[u].fh = cb[t].fh

-----------------------------------------------------------------------------
(* Claims about FUSEAdapter.rename *)

\* rename was called with a source that exists and a different destination.
RenameOfFile == oldpath # newpath /\ rn_orig # Absent

\* C11: a rename of an existing file onto another path never fails, whether
\* the destination exists, is recreated between the unlink and the retry or
\* is removed before the unlink; when it ends the source is absent and the
\* destination holds what the source held; and once the other actor stops,
\* the loop ends.
C11_RenameReplaces ==
    /\ [](RenameOfFile => rn_pc # "raised")
    /\ []((RenameOfFile /\ rn_pc = "done") =>
             (files[oldpath] = Absent /\ files[newpath] = rn_orig))
    /\ (RenameOfFile /\ rn_pc = "rename") ~> (rn_pc = "done")

\* A rename has ended with the source's file at the destination after the
\* other actor changed the destination twice while it ran.
C11_Witness ==
    /\ RenameOfFile
    /\ rn_pc = "done"
    /\ meddles >= 2
    /\ files[newpath] = rn_orig

\* rename has returned or raised.
RenameOver == rn_pc \in {"done", "raised"}

\* C22: when rename has returned or raised with no other actor involved,
\* what was at oldpath when it was called is at oldpath or at newpath, and
\* no entry is gone other than one that was at a newpath different from
\* oldpath.
C22_RenameKeepsSource ==
    RenameOver =>
        /\ rn_orig # Absent =>
              (files[oldpath] = rn_orig \/ files[newpath] = rn_orig)
        /\ \A p \in Paths :
              (rn_before[p] # Absent /\ \A q \in Paths : files[q] # rn_before[p])
                  => (p = newpath /\ newpath # oldpath)

-----------------------------------------------------------------------------
(* Claims about the listening socket *)

\* No port was given: smb_listen_address is None or its port is None.
NoPortGiven == AddrPort(smb_listen_address) = NoPort

\* C12: with no port given, every port handed to sock.bind is a TCP port
\* from 60000 to 65535.
C12_CandidatePortsValid ==
    (NoPortGiven /\ bindAttempts > 0) => port \in 60000 .. 65535

\* C13: with no port given, the loop goes round again exactly after a bind
\* to a port in use and ends at the first bind that succeeds, whose port is
\* the value of port from then on; any other bind error propagates; with a
\* port given there is one bind call, and address-in-use is raised like any
\* other error.
C13_BindRetryPolicy ==
    /\ ~NoPortGiven => (bindAttempts <= 1 /\ (bindAttempts = 1 => pcMain # "bind"))
    /\ (pcMain = "bind" /\ bindAttempts > 0) => (NoPortGiven /\ port \in portsInUse)
    /\ retMain = Raised("EADDRINUSE") => (~NoPortGiven /\ port \in portsInUse)
    /\ retMain \in {Raised("EACCES"), Raised("OverflowError")} => ~sockBound
    /\ sockBound <=> boundTo # NoneVal
    /\ sockBound =>
         /\ boundTo[1] = host
         /\ boundTo[2] \notin portsInUse
         /\ port # 0 => boundTo[2] = port
    /\ bindAttempts > 1 => port \in PortDraws

\* Two candidates were in use, the third bind succeeded, and its port is the
\* one in the locator given to mount.
C13_Witness ==
    /\ NoPortGiven
    /\ sockBound
    /\ bindAttempts = 3
    /\ mountUrl # NoneVal
    /\ mountUrl[2] = boundTo[2]

\* C20: the locator given to the mount command names the host and the port
\* the listening socket is bound to.
C20_LocatorNamesBoundAddress ==
    mountUrl # NoneVal => mountUrl = boundTo

-----------------------------------------------------------------------------
(* Claims about the attribute translation and readdir *)

\* The status record has the field.
Has(st, name) == st[name] # Missing

\* C14: whatever times a status record has, st_birthtime is the timestamp
\* of its birthtime or else 0, st_mtime that of its mtime or else the
\* st_birthtime just computed, st_ctime that of its ctime or else st_mtime,
\* st_atime that of its atime or else st_ctime; with only mtime present
\* ctime and atime equal it, with none present all four are 0.
C14_FallbackChain ==
    attrs # NoneVal =>
        LET a == attrs[2] IN
        /\ a.st_birthtime = IF Has(stRec, "birthtime")
                            THEN utctimestamp(stRec.birthtime) ELSE 0
        /\ a.st_mtime = IF Has(stRec, "mtime")
                        THEN utctimestamp(stRec.mtime) ELSE a.st_birthtime
        /\ a.st_ctime = IF Has(stRec, "ctime")
                        THEN utctimestamp(stRec.ctime) ELSE a.st_mtime
        /\ a.st_atime = IF Has(stRec, "atime")
                        THEN utctimestamp(stRec.atime) ELSE a.st_ctime
        /\ (\A n \in TimeFields : ~Has(stRec, n)) =>
               (a.st_birthtime = 0 /\ a.st_mtime = 0 /\ a.st_ctime = 0
                /\ a.st_atime = 0)

\* A record with only its mtime, which is not the epoch, was translated:
\* ctime and atime follow the mtime, not the birthtime.
C14_Witness ==
    /\ attrs # NoneVal
    /\ Has(stRec, "mtime") /\ stRec.mtime # Dt(0)
    /\ \A n \in TimeFields \ {"mtime"} : ~Has(stRec, n)
    /\ attrs[2].st_birthtime = 0
    /\ attrs[2].st_ctime = attrs[2].st_mtime
    /\ attrs[2].st_atime = attrs[2].st_mtime
    /\ attrs[2].st_mtime # 0

\* C15: a readdir of a live directory handle returns ".", "..", then one
\* entry per child in the directory's order, with the child's name and its
\* translated attributes (its size; the directory or regular-file type),
\* and leaves the handle's table entry as it was.
C15_ReaddirListing ==
    \A t \in Threads :
        (cb[t].op = "readdir" /\ cb[t].pc = "done" /\ cb[t].result = "ok") =>
            /\ listing # NoneVal
            /\ Len(listing[2]) = Len(children) + 2
            /\ listing[2][1] = "." /\ listing[2][2] = ".."
            /\ \A i \in 1 .. Len(children) :
                 LET e == listing[2][i + 2] IN
                 /\ e[1] = children[i].name
                 /\ e[2].st_size = children[i].size
                 /\ FileType(e[2].st_mode) =
                      (IF children[i].type = "directory" THEN S_IFDIR
                                                          ELSE S_IFREG)
                 /\ e[2] = _fs_stat_to_fuse_attrs(children[i])
            /\ ~cb[t].wrote
            /\ Live(cb[t].fh) /\ fh_to_file[cb[t].fh] = cb[t].f
            /\ cb[t].f \in liveRes

\* A directory with a file of five bytes and a subdirectory has been listed.
C15_Witness ==
    /\ cb[1].op = "readdir" /\ cb[1].pc = "done" /\ cb[1].result = "ok"
    /\ Len(children) = 2
    /\ children[1].type = "file" /\ children[1].size = 5
    /\ children[2].type = "directory"
    /\ Len(listing[2]) = 4

-----------------------------------------------------------------------------
(* Claims about on_new_process *)

\* A filesystem server has come to run: the kernel transport served and
\* returned, or the flow reached server.run().
ServerCameToRun ==
    \/ fuseResult = "ok"
    \/ pcMain = "run"
    \/ (pcMain \in {"finally", "returned", "raised"} /\ pcWatch # "idle")

\* The process mount_notify runs in after a fork.
NotifierParent == "caller"

\* C16 as stated: with an on_new_process, whenever a filesystem server has
\* come to run, on_new_process has been called exactly once in the process
\* that runs it, and never in the parent that runs mount_notify.
C16_CallbackOnceInServerProcess ==
    (on_new_process /\ ServerCameToRun) =>
        /\ onpCalls[ServerProc] = 1
        /\ forked => onpCalls[NotifierParent] = 0

\* C16 as the code has it: in foreground mode on_new_process is never
\* called; otherwise, with an on_new_process, it has been called exactly
\* once in the process of a server that has come to run (by the transport's
\* init callback, or by the forked child before it does anything else), at
\* most once in any process, and in the parent that runs mount_notify only
\* when the kernel transport had called init there before it failed.
C16_CallbackOnceUnlessForeground ==
    /\ (foreground \/ ~on_new_process) =>
          \A p \in DOMAIN onpCalls : onpCalls[p] = 0
    /\ \A p \in DOMAIN onpCalls : onpCalls[p] <= 1
    /\ (~foreground /\ on_new_process) =>
          /\ onpCalls["caller"] = (IF fuseInit THEN 1 ELSE 0)
          /\ onpCalls["child"] =
                (IF forked /\ pcMain # "child" THEN 1 ELSE 0)
          /\ ServerCameToRun => onpCalls[ServerProc] = 1
          /\ (forked /\ ~fuseInit) => onpCalls[NotifierParent] = 0

\* The forked child runs the SMB server after its one call of
\* on_new_process, the parent having made none.
C16_Witness ==
    /\ on_new_process /\ ~foreground
    /\ forked /\ pcMain = "run"
    /\ onpCalls["child"] = 1
    /\ onpCalls["caller"] = 0

-----------------------------------------------------------------------------
(* Claims about the server's start-up and the watchdog's waits *)

\* C17: in the server flow the SMBServer is constructed before any handler
\* is installed, the three handlers are installed before the ready byte is
\* written, the ready byte is written before check_mount is started, and
\* check_mount is started before server.run() runs; so check_mount never
\* calls close() on a server that is None.
C17_StartupOrder ==
    /\ handlers # {} => server = "set"
    /\ readyWritten => handlers = Signals
    /\ pcWatch # "idle" => readyWritten
    /\ ServerRunning => pcWatch # "idle"
    /\ pcWatch \in {"close", "done"} => server = "set"
    /\ serverCloseCalls > 0 => server = "set"

\* check_mount has closed the server while server.run() is in progress.
C17_Witness ==
    /\ ServerRunning
    /\ serverCloseCalls = 1
    /\ handlers = Signals /\ readyWritten

\* C18: every read, insertion and removal of the handle table is made by a
\* thread that holds self._lock, and a released resource is closed by a
\* thread that does not hold it.
C18_TableOpsUnderMutex ==
    [][\A t \in Threads :
          /\ (GetattrCheck(t) \/ Lookup(t)) => lock = t
          /\ (SaveDraw(t) \/ SaveStore(t) \/ DeletePop(t)) => lock = t
          /\ CloseResource(t) => lock # t]_vars

\* The mm_q.get that is about to return takes a token that is False.
TakesKillToken == mm_q # <<>> /\ ~Head(mm_q)

\* C19 as stated: the wait has no timeout until the mount is confirmed, then
\* one second in foreground mode and thirty otherwise; before confirmation
\* check_mount wakes only on a token and does not ask whether the mount
\* point is a mount; once confirmed, every wake is followed by that test.
C19_VerifiesOnEveryWake ==
    /\ [](pcWatch = "check" => is_mounted)
    /\ [][WatchGet =>
            /\ ~is_mounted => mm_q # <<>>
            /\ mm_q = <<>> =>
                  WaitTimeout = (IF foreground THEN IntVal(1) ELSE IntVal(30))
            /\ is_mounted => pcWatch' = "check"]_vars

\* C19 as the code has it: the same timeouts; before confirmation
\* check_mount wakes only on a token and does not ask whether the mount
\* point is a mount; every wake is followed by that test except the wake on
\* a kill token, which ends the loop without it.
C19_VerifiesOnEveryWakeButKill ==
    /\ [](pcWatch = "check" => is_mounted)
    /\ [][WatchGet =>
            /\ ~is_mounted => mm_q # <<>>
            /\ mm_q = <<>> =>
                  WaitTimeout = (IF foreground THEN IntVal(1) ELSE IntVal(30))
            /\ pcWatch' = "check" <=> ~TakesKillToken
            /\ TakesKillToken => (pcWatch' = "after" /\ wdExit' = "kill")]_vars

\* Daemonized, the mount confirmed and verified, check_mount waits again
\* with its thirty-second timeout.
C19_Witness ==
    /\ ~foreground
    /\ pcWatch = "get"
    /\ is_mounted /\ mounted
    /\ WaitTimeout = IntVal(30)
    /\ mm_q = <<>>

-----------------------------------------------------------------------------
(* Claims about smb_no_mount *)

\* C21: with smb_no_mount set, run_fuse_mount is never called; mount_notify
\* runs no mount command, sends no signal, and returns 0 only once the ready
\* byte has been written; check_mount never sets is_mounted, never reaches
\* the test of the mount point and never runs umount; and server.close() is
\* called only after a kill token was taken from the queue.
C21_NoMountMode ==
    smb_no_mount =>
        /\ fuseResult = "none"
        /\ mountCalls = 0
        /\ pcNotify \notin {"mount", "kill"}
        /\ retNotify # Pending => (retNotify = IntVal(0) /\ readyWritten)
        /\ ~is_mounted
        /\ pcWatch # "check"
        /\ umountCalls = 0
        /\ serverCloseCalls > 0 => wdExit = "kill"

=============================================================================
